---- MODULE Spec2Model ----
(***************************************************************************)
(* LRCP line-reversal server ("7 - line reversal/line-reversal.py").       *)
(*                                                                         *)
(* The state is the module-level session table (a dict keyed by the        *)
(* session id as it appears on the wire) and, for observation, the         *)
(* datagram just handled, as far as the handler read it (last), and the    *)
(* datagrams the handler passed to transport.sendto, in order (sent).      *)
(* One action per message kind of LRCP.datagram_received and one for       *)
(* maybe_retransmit.  asyncio runs each callback to completion, so a       *)
(* handler is one atomic step.                                             *)
(*                                                                         *)
(* A byte is its integer value.  A payload is a sequence of bytes.  A slot *)
(* of Session.data holds one piece of re.split's output (a sequence of     *)
(* bytes) and <<>> is the empty slot b''.  A session id is the sequence of *)
(* its decimal digits, so that 2^31 is representable and compared as       *)
(* int() compares it.  Positions and lengths are non-negative integers.    *)
(***************************************************************************)
EXTENDS Integers, Sequences, FiniteSets, TLC

\* ------------------------------------------------------------------ bytes
NL == 10
SLASH == 47
BSLASH == 92
CHUNK_SIZE == 512

\* the bytes the tokenizer gives no meaning of their own, and one of them
Ordinary == (0..255) \ {NL, SLASH, BSLASH}
LetterA == CHOOSE b \in Ordinary : b >= 97
\* the minus sign of a decimal field
Minus == CHOOSE b \in Ordinary : b >= 45

\* ----------------------------------------------------------------- bounds
\* largest number of slots a session's received buffer holds
MaxData == 2
\* largest number of bytes of a payload, where every payload is tried
MaxPayload == 3
\* largest number of full chunks of an outbound buffer, where chunking is tried
MaxChunks == 2

\* ------------------------------------------------------------- input sets
Id1 == <<1>>
\* 2^31 and 2^31 + 1 in decimal
IdEdge == <<2, 1, 4, 7, 4, 8, 3, 6, 4, 8>>
IdOver == <<2, 1, 4, 7, 4, 8, 3, 6, 4, 9>>
IdLimit == <<2, 1, 4, 7, 4, 8, 3, 6, 4, 8>>

\* the ids of incoming datagrams: one that connects and one that never can
Ids == {Id1, IdOver}
\* the addresses datagrams come from
Addrs == {"A1", "A2"}
Positions == 0..MaxData
\* the lengths incoming acks claim: nothing, and a full receive buffer
AckLens == {0, MaxData}
\* the payloads of incoming data datagrams: empty, an ordinary byte, a
\* newline, a one-byte line, two newlines, an escaped slash, a bare slash,
\* and an escaped backslash followed by a bare slash
Payloads ==
    { <<>>, <<LetterA>>, <<NL>>, <<LetterA, NL>>, <<NL, NL>>, <<BSLASH, SLASH>>,
      <<SLASH>>, <<BSLASH, BSLASH, SLASH>> }

\* ---------------------------------------------------------------- helpers
Range(q) == {q[i] : i \in 1..Len(q)}

Min(a, b) == IF a < b THEN a ELSE b

RECURSIVE Reverse(_)
Reverse(q) == IF q = <<>> THEN <<>> ELSE Reverse(Tail(q)) \o <<Head(q)>>

\* b''.join(slice), halving the sequence
RECURSIVE Join(_)
Join(q) ==
    IF q = <<>> THEN <<>>
    ELSE IF Len(q) = 1 THEN q[1]
    ELSE LET h == Len(q) \div 2
         IN  Join(SubSeq(q, 1, h)) \o Join(SubSeq(q, h + 1, Len(q)))

\* A decimal field is the sequence of its characters, a digit written as its
\* value and any other character as its byte.
IsNegative(a) == a # <<>> /\ Head(a) = Minus

\* int(a) > int(b) for two decimal fields without leading zero, b unsigned
RECURSIVE LexGreater(_, _)
LexGreater(a, b) ==
    IF a = <<>> THEN FALSE
    ELSE IF Head(a) # Head(b) THEN Head(a) > Head(b)
    ELSE LexGreater(Tail(a), Tail(b))

IntGreater(a, b) ==
    /\ ~IsNegative(a)
    /\ \/ Len(a) > Len(b)
       \/ Len(a) = Len(b) /\ LexGreater(a, b)

\* ------------------------------------------------------------- wire codec
\* length of the run of newline bytes d starts with
RECURSIVE NewlineRun(_)
NewlineRun(d) ==
    IF d = <<>> \/ Head(d) # NL THEN 0 ELSE 1 + NewlineRun(Tail(d))

\* (variant) an escape pair is stored as the byte it stands for
RECURSIVE SplitDataUnescaped(_)
SplitDataUnescaped(d) ==
    IF d = <<>> THEN <<>>
    ELSE IF Head(d) = BSLASH /\ Len(d) >= 2 /\ d[2] # NL
         THEN <<SubSeq(d, 2, 2)>> \o SplitDataUnescaped(SubSeq(d, 3, Len(d)))
    ELSE IF Head(d) # NL
         THEN <<SubSeq(d, 1, 1)>> \o SplitDataUnescaped(Tail(d))
    ELSE LET k == NewlineRun(d)
         IN  <<SubSeq(d, 1, k)>> \o SplitDataUnescaped(SubSeq(d, k + 1, Len(d)))

\* [x for x in re.split(br'(\\?.)', data) if x]: the matches of \\?. (an
\* optional backslash and one byte other than newline) and the text between
\* them, which is the runs of newline bytes, each run one piece.
RECURSIVE SplitData(_)
SplitData(d) ==
    IF d = <<>> THEN <<>>
    ELSE IF Head(d) = BSLASH /\ Len(d) >= 2 /\ d[2] # NL
         THEN <<SubSeq(d, 1, 2)>> \o SplitData(SubSeq(d, 3, Len(d)))
    ELSE IF Head(d) # NL
         THEN <<SubSeq(d, 1, 1)>> \o SplitData(Tail(d))
    ELSE LET k == NewlineRun(d)
         IN  <<SubSeq(d, 1, k)>> \o SplitData(SubSeq(d, k + 1, Len(d)))

\* ---------------------------------------------------------------- session
NewSession(addr) ==
    [addr |-> addr, data |-> <<>>, cursor |-> 0, send_cursor |-> 0,
     acked_until |-> 0, is_closed |-> FALSE, send_buffer |-> <<>>]

\* a datagram passed to transport.sendto(bytes, to)
Dg(kind, sid, n, data, to) ==
    [kind |-> kind, sid |-> sid, n |-> n, data |-> data, to |-> to]

AckDg(sid, n, to) == Dg("ack", sid, n, <<>>, to)
CloseDg(sid, to) == Dg("close", sid, 0, <<>>, to)
DataDg(sid, pos, data, to) == Dg("data", sid, pos, data, to)

\* (variant) the buffer is rebuilt around the pieces: every slot outside
\* their range becomes empty
AddDataRebuilt(s, pos, toks) ==
    LET new_max_size == pos + Len(toks)
        size == IF new_max_size > Len(s.data) THEN new_max_size ELSE Len(s.data)
    IN  [s EXCEPT !.data = [i \in 1..size |->
                              IF i > pos /\ i <= pos + Len(toks)
                              THEN toks[i - pos] ELSE <<>>]]

\* Session.add_data
AddData(s, pos, toks) ==
    LET new_max_size == pos + Len(toks)
        pad == IF new_max_size > Len(s.data) THEN new_max_size - Len(s.data) ELSE 0
        grown == s.data \o [i \in 1..pad |-> <<>>]
    IN  [s EXCEPT !.data = [i \in 1..Len(grown) |->
                              IF i > pos /\ i <= pos + Len(toks)
                              THEN toks[i - pos] ELSE grown[i]]]

\* the loop of Session.send_data: one datagram per CHUNK_SIZE slots
RECURSIVE SendChunks(_, _, _, _)
SendChunks(sid, addr, buf, cursor) ==
    IF buf = <<>> THEN <<>>
    ELSE LET k == Min(CHUNK_SIZE, Len(buf))
         IN  <<DataDg(sid, cursor, Join(SubSeq(buf, 1, k)), addr)>>
             \o SendChunks(sid, addr, SubSeq(buf, k + 1, Len(buf)), cursor + CHUNK_SIZE)

\* (variant) only what the peer has not acknowledged is sent
SendDataUnacked(sid, s) ==
    IF s.is_closed THEN <<>>
    ELSE SendChunks(sid, s.addr,
                    SubSeq(s.send_buffer, s.acked_until + 1, Len(s.send_buffer)),
                    s.acked_until)

\* Session.send_data: the datagrams it sends
SendData(sid, s) ==
    IF s.is_closed THEN <<>> ELSE SendChunks(sid, s.addr, s.send_buffer, 0)

\* (variant) only the first piece is tested
IsMalformedFirst(split_data) == split_data # <<>> /\ split_data[1] = <<SLASH>>

\* b'/' in split_data
IsMalformed(split_data) == <<SLASH>> \in Range(split_data)

\* (variant) no test for empty slots
HasEmptySlotNever(s) == FALSE

\* the test at the top of Session.handle_data
HasEmptySlot(s) == <<>> \in Range(s.data)

\* one line found by handle_data at slot i (1-based): the session after it
ExtractLine(s, i) ==
    LET line == SubSeq(s.data, s.cursor + 1, i - 1)
    IN  [s EXCEPT !.send_buffer = @ \o Reverse(line) \o << <<NL>> >>,
                  !.cursor = i,
                  !.send_cursor = @ + Len(line) + 1]

\* what handle_data has in send_buffer when it calls send_data for that line
BeforeSend(s, i) ==
    [s EXCEPT !.send_buffer = @ \o Reverse(SubSeq(s.data, s.cursor + 1, i - 1))
                                \o << <<NL>> >>]

\* the for loop of Session.handle_data from slot i (1-based) on
RECURSIVE HandleLoop(_, _, _, _)
HandleLoop(sid, s, i, out) ==
    IF i > Len(s.data) THEN [s |-> s, out |-> out]
    ELSE IF s.data[i] = <<NL>>
         THEN HandleLoop(sid, ExtractLine(s, i), i + 1,
                         out \o SendData(sid, BeforeSend(s, i)))
    ELSE HandleLoop(sid, s, i + 1, out)

\* Session.handle_data: the session after it and the datagrams it sent
HandleData(sid, s) ==
    IF HasEmptySlot(s) THEN [s |-> s, out |-> <<>>]
    ELSE HandleLoop(sid, s, s.cursor + 1, <<>>)

\* data.index(b'') or, on ValueError, len(data); the search starts at slot i
FirstEmpty(data, i) ==
    IF \A j \in i..Len(data) : data[j] # <<>> THEN Len(data)
    ELSE CHOOSE k \in (i - 1)..(Len(data) - 1) :
            data[k + 1] = <<>> /\ \A j \in i..k : data[j] # <<>>

\* (variant) the length of the buffer, holes or not
AckLengthWhole(s) == Len(s.data)

AckLength(s) == FirstEmpty(s.data, 1)

\* ------------------------------------------------------------------ state
\* sessions, keys: the dict sessions and the order of its keys
\* last: the datagram the last handler was called with (kind "tick" for the
\*       retransmission timer); sent: what that handler passed to sendto
\* tracked, stream: history of the peer's side, written under SpecHist only:
\*       one data datagram that was accepted earlier, and per session the
\*       bytes the accepted payloads put at each offset of the peer's stream
\* dgram: the datagram as it arrived, before datagram_received took it
\*       apart; written under SpecWire only
\* pc:    where the callback that is running stands, for the specification
\*       that takes handle_data one line at a time (SpecSteps); idle in all
\*       others, whose actions are whole callbacks
VARIABLES sessions, keys, last, sent, tracked, stream, dgram, pc

vars == <<sessions, keys, last, sent, tracked, stream, dgram, pc>>

\* no callback is running
Idle == [at |-> "idle", sid |-> <<>>, i |-> 0, addr |-> ""]

\* the data callback for sid stands before line 37, the line ending at slot i
\* (1-based) being appended to send_buffer; its reply will go to addr
AtSend(sid, i, addr) == [at |-> "send", sid |-> sid, i |-> i, addr |-> addr]

Event(kind, sid, n, data) ==
    [kind |-> kind, sid |-> sid, n |-> n, data |-> data]

NoEvent == Event("none", <<>>, 0, <<>>)

\* A datagram on the wire: whether it starts and ends with a slash, the
\* text up to the first inner slash, and the slash-separated fields after it
\* (the payload of a data datagram is one field, whatever slashes it holds;
\* no field at all when there is no inner slash).
Datagram(lead, trail, kind, args) ==
    [lead |-> lead, trail |-> trail, kind |-> kind, args |-> args]

NoDatagram == Datagram(FALSE, FALSE, "", <<>>)

Known(sid) == sid \in DOMAIN sessions

IsOpen(sid) == Known(sid) /\ ~sessions[sid].is_closed

Init ==
    /\ sessions = <<>>
    /\ keys = <<>>
    /\ last = NoEvent
    /\ sent = <<>>
    /\ tracked = NoEvent
    /\ stream = <<>>
    /\ dgram = NoDatagram
    /\ pc = Idle

\* (variant) a connect always stores a fresh session
ConnectFresh(sid, addr) ==
    /\ last' = Event("connect", sid, 0, <<>>)
    /\ IF IntGreater(sid, IdLimit)
       THEN /\ sent' = <<>>
            /\ UNCHANGED <<sessions, keys>>
       ELSE /\ sessions' = (sid :> NewSession(addr)) @@ sessions
            /\ keys' = IF Known(sid) THEN keys ELSE Append(keys, sid)
            /\ sent' = <<AckDg(sid, 0, addr)>>

\* datagram_received, msg_type == b'connect'
Connect(sid, addr) ==
    /\ last' = Event("connect", sid, 0, <<>>)
    /\ IF IntGreater(sid, IdLimit)
       THEN /\ sent' = <<>>
            /\ UNCHANGED <<sessions, keys>>
       ELSE /\ IF Known(sid)
               THEN UNCHANGED <<sessions, keys>>
               ELSE /\ sessions' = (sid :> NewSession(addr)) @@ sessions
                    /\ keys' = Append(keys, sid)
            /\ sent' = <<AckDg(sid, 0, addr)>>

\* datagram_received, msg_type == b'data', for a receive buffer that holds
\* at most limit slots
DataUpTo(limit, sid, pos, payload, addr) ==
    /\ last' = Event("data", sid, pos, payload)
    /\ UNCHANGED keys
    /\ IF ~Known(sid) \/ sessions[sid].is_closed
       THEN /\ sent' = <<CloseDg(sid, addr)>>
            /\ UNCHANGED sessions
       ELSE LET split_data == SplitData(payload)
            IN  IF IsMalformed(split_data)
                THEN /\ sent' = <<>>
                     /\ UNCHANGED sessions
                ELSE LET r == HandleData(sid, AddData(sessions[sid], pos, split_data))
                     IN  /\ Len(r.s.data) <= limit
                         /\ sessions' = [sessions EXCEPT ![sid] = r.s]
                         /\ sent' = r.out \o <<AckDg(sid, AckLength(r.s), addr)>>

Data(sid, pos, payload, addr) == DataUpTo(MaxData, sid, pos, payload, addr)

\* (variant) a close for an unknown id stores a session for it first
CloseCreating(sid, addr) ==
    /\ last' = Event("close", sid, 0, <<>>)
    /\ LET s == IF Known(sid) THEN sessions[sid] ELSE NewSession(addr)
           r == HandleData(sid, [s EXCEPT !.is_closed = TRUE])
       IN  /\ sessions' = (sid :> r.s) @@ sessions
           /\ keys' = IF Known(sid) THEN keys ELSE Append(keys, sid)
           /\ sent' = r.out \o <<CloseDg(sid, addr)>>

\* (variant) a close replies without setting is_closed
CloseUnmarked(sid, addr) ==
    /\ last' = Event("close", sid, 0, <<>>)
    /\ UNCHANGED keys
    /\ IF ~Known(sid)
       THEN /\ sent' = <<>>
            /\ UNCHANGED sessions
       ELSE LET r == HandleData(sid, sessions[sid])
            IN  /\ sessions' = [sessions EXCEPT ![sid] = r.s]
                /\ sent' = r.out \o <<CloseDg(sid, addr)>>

\* datagram_received, msg_type == b'close'; an unknown id raises KeyError,
\* which ends the callback
Close(sid, addr) ==
    /\ last' = Event("close", sid, 0, <<>>)
    /\ UNCHANGED keys
    /\ IF ~Known(sid)
       THEN /\ sent' = <<>>
            /\ UNCHANGED sessions
       ELSE LET r == HandleData(sid, [sessions[sid] EXCEPT !.is_closed = TRUE])
            IN  /\ sessions' = [sessions EXCEPT ![sid] = r.s]
                /\ sent' = r.out \o <<CloseDg(sid, addr)>>

\* (variant) an ack beyond the received length also closes the session
AckClosing(sid, until, addr) ==
    /\ last' = Event("ack", sid, until, <<>>)
    /\ UNCHANGED keys
    /\ IF ~Known(sid)
       THEN /\ sent' = <<>>
            /\ UNCHANGED sessions
       ELSE /\ sessions' = [sessions EXCEPT
                                ![sid].acked_until = until,
                                ![sid].is_closed = @ \/ until > Len(sessions[sid].data)]
            /\ sent' = IF until > Len(sessions[sid].data)
                       THEN <<CloseDg(sid, addr)>> ELSE <<>>

\* datagram_received, msg_type == b'ack'; an unknown id raises KeyError
Ack(sid, until, addr) ==
    /\ last' = Event("ack", sid, until, <<>>)
    /\ UNCHANGED keys
    /\ IF ~Known(sid)
       THEN /\ sent' = <<>>
            /\ UNCHANGED sessions
       ELSE /\ sessions' = [sessions EXCEPT ![sid].acked_until = until]
            /\ sent' = IF until > Len(sessions[sid].data)
                       THEN <<CloseDg(sid, addr)>> ELSE <<>>

\* (variant) closed sessions are not skipped, nor does send_data test
RECURSIVE RetransmitAll(_)
RetransmitAll(q) ==
    IF q = <<>> THEN <<>>
    ELSE SendChunks(Head(q), sessions[Head(q)].addr, sessions[Head(q)].send_buffer, 0)
         \o RetransmitAll(Tail(q))

\* (variant) a session whose output is acknowledged is skipped, which is
\* the test that line 62 holds as a comment
RECURSIVE RetransmitUnacked(_)
RetransmitUnacked(q) ==
    IF q = <<>> THEN <<>>
    ELSE (IF sessions[Head(q)].is_closed
             \/ sessions[Head(q)].send_cursor = sessions[Head(q)].acked_until
          THEN <<>>
          ELSE SendData(Head(q), sessions[Head(q)]))
         \o RetransmitUnacked(Tail(q))

\* maybe_retransmit: every session of the table, in the dict's order
RECURSIVE Retransmit(_)
Retransmit(q) ==
    IF q = <<>> THEN <<>>
    ELSE (IF sessions[Head(q)].is_closed THEN <<>>
          ELSE SendData(Head(q), sessions[Head(q)]))
         \o Retransmit(Tail(q))

\* one pass of the loop of retransmit_task
Tick ==
    /\ last' = Event("tick", <<>>, 0, <<>>)
    /\ sent' = Retransmit(keys)
    /\ UNCHANGED <<sessions, keys>>

\* The fields of a data datagram for sid, as far as the handler reads them:
\* nothing of one for an absent or closed session, the payload alone of one
\* it drops (a field it does not read is 0 or empty).
DataFields(sid, payloads) ==
    IF ~IsOpen(sid) THEN {<<0, <<>> >>}
    ELSE {<<pos, p>> : pos \in Positions,
                       p \in {x \in payloads : ~IsMalformed(SplitData(x))}}
         \cup {<<0, p>> : p \in {x \in payloads : IsMalformed(SplitData(x))}}

\* the length of an ack datagram for sid: not read for an absent session
AckFields(sid) == IF Known(sid) THEN AckLens ELSE {0}

\* the addresses a connect for sid comes from: the first connect for an id
\* comes from the first address, any later one from either
ConnectAddrs(sid) == IF sid \in DOMAIN sessions THEN Addrs ELSE {"A1"}

\* the history is not written, the datagram is given by its fields
NoHist == UNCHANGED <<tracked, stream, dgram, pc>>

Next ==
    \/ \E sid \in Ids : \E addr \in ConnectAddrs(sid) : Connect(sid, addr) /\ NoHist
    \/ \E sid \in Ids, addr \in Addrs : \E f \in DataFields(sid, Payloads) :
          Data(sid, f[1], f[2], addr) /\ NoHist
    \/ \E sid \in Ids, addr \in Addrs : Close(sid, addr) /\ NoHist
    \/ \E sid \in Ids, addr \in Addrs : \E until \in AckFields(sid) :
          Ack(sid, until, addr) /\ NoHist
    \/ Tick /\ NoHist

Spec == Init /\ [][Next]_vars

\* ------------------------------------------------------------- properties
\* The bytes a payload stands for on the peer's side: an escape pair is the
\* byte it escapes, every other byte is itself.
RECURSIVE Decode(_)
Decode(d) ==
    IF d = <<>> THEN <<>>
    ELSE IF Head(d) = BSLASH /\ Len(d) >= 2
         THEN <<d[2]>> \o Decode(SubSeq(d, 3, Len(d)))
    ELSE <<Head(d)>> \o Decode(Tail(d))

\* a payload with a slash that no backslash escapes
RECURSIVE BareSlash(_)
BareSlash(d) ==
    IF d = <<>> THEN FALSE
    ELSE IF Head(d) = BSLASH THEN Len(d) >= 2 /\ BareSlash(SubSeq(d, 3, Len(d)))
    ELSE IF Head(d) = SLASH THEN TRUE
    ELSE BareSlash(Tail(d))

\* the slots of a receive buffer that are empty, and the first of them
Holes(data) == {i \in 1..Len(data) : data[i] = <<>>}

HasHole(data) == Holes(data) # {}

\* the cumulative length: the index of the first hole, else the whole length
Cumulative(data) ==
    IF HasHole(data)
    THEN (CHOOSE i \in Holes(data) : \A j \in Holes(data) : i <= j) - 1
    ELSE Len(data)

Acks(q, sid) == SelectSeq(q, LAMBDA d : d.kind = "ack" /\ d.sid = sid)
Closes(q, sid) == SelectSeq(q, LAMBDA d : d.kind = "close" /\ d.sid = sid)
Datas(q, sid) == SelectSeq(q, LAMBDA d : d.kind = "data" /\ d.sid = sid)

\* the last datagram was a data datagram for an open session, without a
\* bare slash: the handler accepted it
AcceptedData ==
    /\ last.kind = "data"
    /\ IsOpen(last.sid)
    /\ ~BareSlash(last.data)

\* an id in [0, 2^31)
ValidId(sid) == IntGreater(IdLimit, sid)

IsPrefix(a, b) == Len(a) <= Len(b) /\ SubSeq(b, 1, Len(a)) = a

\* the complete lines of a run of slots, each reversed, with its newline
RECURSIVE ReversedLines(_)
ReversedLines(q) ==
    IF <<NL>> \notin Range(q) THEN <<>>
    ELSE LET i == CHOOSE i \in 1..Len(q) :
                    q[i] = <<NL>> /\ \A j \in 1..(i - 1) : q[j] # <<NL>>
         IN  Reverse(SubSeq(q, 1, i - 1)) \o << <<NL>> >>
             \o ReversedLines(SubSeq(q, i + 1, Len(q)))

\* C2: after an accepted data datagram exactly one ack is sent, and its
\* length is the index of the first empty slot of received, or the length of
\* received when no slot is empty (an empty payload past the end included).
C2_AckAfterData ==
    AcceptedData =>
        /\ Len(Acks(sent, last.sid)) = 1
        /\ Acks(sent, last.sid)[1].n = Cumulative(sessions[last.sid].data)
        /\ \A i \in 1..Len(sent) : sent[i].kind = "ack" => sent[i].sid = last.sid

\* an empty payload past the end has padded the buffer with holes, and the
\* ack names the first of them
C2_Witness ==
    /\ AcceptedData
    /\ last.data = <<>> /\ last.n = 2
    /\ sessions[last.sid].data = << <<LetterA>>, <<>> >>
    /\ Acks(sent, last.sid)[1].n = 1

\* C3: while a session's received buffer has a hole, no line is extracted
\* (outbound and read_cursor keep their values) and no ack exceeds the index
\* of the first hole; the data datagram that leaves no hole appends every
\* complete line from read_cursor on, reversed, and moves read_cursor past
\* them; nothing else ever changes outbound, and outbound is as long as
\* read_cursor, so no slot is extracted twice.
C3_Session(s) ==
    LET old == sessions[s]
        new == sessions'[s]
        lines == ReversedLines(SubSeq(new.data, old.cursor + 1, Len(new.data)))
    IN  /\ HasHole(new.data) =>
              /\ new.send_buffer = old.send_buffer
              /\ new.cursor = old.cursor
              /\ \A i \in 1..Len(Acks(sent', s)) :
                    Acks(sent', s)[i].n <= Cumulative(new.data)
        /\ (AcceptedData' /\ last'.sid = s /\ ~HasHole(new.data)) =>
              /\ new.send_buffer = old.send_buffer \o lines
              /\ new.cursor = old.cursor + Len(lines)
        /\ new.send_buffer # old.send_buffer => AcceptedData' /\ last'.sid = s
        /\ IsPrefix(old.send_buffer, new.send_buffer)
        /\ Len(new.send_buffer) = new.cursor

C3_HoleThenLine ==
    [][\A s \in DOMAIN sessions : s \in DOMAIN sessions' /\ C3_Session(s)]_vars

\* the newline came first, and the datagram for offset 0 has just filled the
\* gap: the line went out in this step
C3_Witness ==
    /\ AcceptedData
    /\ last.n = 0 /\ last.data = <<LetterA>>
    /\ sessions[last.sid].data = << <<LetterA>>, <<NL>> >>
    /\ sessions[last.sid].send_buffer = << <<LetterA>>, <<NL>> >>
    /\ Len(Datas(sent, last.sid)) = 1
    /\ Datas(sent, last.sid)[1].data = <<LetterA, NL>>

\* C4: a connect with a valid id is answered by exactly ack/ID/0/, and when
\* the session existed (open or closed) none of its fields changes.
C4_ConnectAck ==
    [][(last'.kind = "connect" /\ ValidId(last'.sid)) =>
          /\ Len(sent') = 1
          /\ sent'[1].kind = "ack" /\ sent'[1].sid = last'.sid /\ sent'[1].n = 0
          /\ Known(last'.sid) => sessions' = sessions /\ keys' = keys]_vars

\* a connect from another address for a session that is closed and holds
\* data and output
C4_Witness ==
    /\ last.kind = "connect"
    /\ Known(last.sid)
    /\ sessions[last.sid].is_closed
    /\ sessions[last.sid].send_buffer # <<>>
    /\ sessions[last.sid].addr = "A1"
    /\ sent = <<AckDg(last.sid, 0, "A2")>>

\* C5: a data datagram for an open session whose payload has a bare slash is
\* dropped: no session changes and nothing is sent.
C5_BareSlashDropped ==
    [][(last'.kind = "data" /\ IsOpen(last'.sid) /\ BareSlash(last'.data)) =>
          /\ sessions' = sessions
          /\ keys' = keys
          /\ sent' = <<>>]_vars

\* the bare slash follows an escaped backslash
C5_Witness ==
    /\ last.kind = "data"
    /\ IsOpen(last.sid)
    /\ last.data = <<BSLASH, BSLASH, SLASH>>
    /\ sessions[last.sid].data # <<>>
    /\ sent = <<>>

\* C6: only a connect changes the set of session ids; a close, data or ack
\* for an id that is not in the table adds nothing.
C6_OnlyConnectCreates ==
    [][last'.kind # "connect" =>
          /\ DOMAIN sessions' = DOMAIN sessions
          /\ keys' = keys]_vars

\* a data datagram for an id the table does not hold, answered by a close
C6_Witness ==
    /\ last.kind = "data"
    /\ ~Known(last.sid)
    /\ Known(Id1)
    /\ Len(Closes(sent, last.sid)) = 1

\* C7: an ack whose length exceeds the number of bytes ever put in the
\* session's outbound buffer is answered by a close for the session.
C7_AckBeyondSent ==
    (last.kind = "ack" /\ Known(last.sid)
        /\ last.n > Len(sessions[last.sid].send_buffer))
    => Len(Closes(sent, last.sid)) >= 1

\* C9: a close for an existing session sets is_closed and is answered by
\* exactly one close; is_closed, once true, stays true.
C9_CloseMarksAndStays ==
    [][/\ (last'.kind = "close" /\ Known(last'.sid)) =>
             /\ sessions'[last'.sid].is_closed
             /\ Len(sent') = 1
             /\ Len(Closes(sent', last'.sid)) = 1
       /\ \A s \in DOMAIN sessions :
             sessions[s].is_closed => s \in DOMAIN sessions' /\ sessions'[s].is_closed]_vars

\* a close for a session with received data
C9_Witness ==
    /\ last.kind = "close"
    /\ Known(last.sid)
    /\ sessions[last.sid].is_closed
    /\ sessions[last.sid].data # <<>>
    /\ Len(Closes(sent, last.sid)) = 1

\* C10: no data datagram is sent for a session whose is_closed is true, by
\* the close handler, by a later datagram or by a retransmission tick.
C10_NoDataOnceClosed ==
    \A s \in DOMAIN sessions :
        sessions[s].is_closed => Datas(sent, s) = <<>>

\* a tick with a closed session that has output
C10_Witness ==
    /\ last.kind = "tick"
    /\ Known(Id1)
    /\ sessions[Id1].is_closed
    /\ sessions[Id1].send_buffer # <<>>
    /\ sent = <<>>

\* ------------------------------------------------- the peer's side (history)
\* the peer's stream: for each offset, the bytes its payloads put there
Max(a, b) == IF a > b THEN a ELSE b

\* the peer's stream st after a payload of bytes chars at offset pos
Supply(st, pos, chars) ==
    IF chars = <<>> THEN st
    ELSE [i \in 1..Max(Len(st), pos + Len(chars)) |->
            (IF i <= Len(st) THEN st[i] ELSE {})
            \cup (IF i > pos /\ i <= pos + Len(chars) THEN {chars[i - pos]} ELSE {})]

\* the data handler takes the datagram: the session is open, no bare slash
Takes(sid, payload) == IsOpen(sid) /\ ~IsMalformed(SplitData(payload))

HistConnect(sid) ==
    /\ stream' = IF sid \in DOMAIN sessions' /\ ~Known(sid)
                 THEN (sid :> <<>>) @@ stream ELSE stream
    /\ UNCHANGED <<tracked, dgram, pc>>

HistData(sid, pos, payload) ==
    /\ stream' = IF Takes(sid, payload)
                 THEN [stream EXCEPT ![sid] = Supply(@, pos, Decode(payload))]
                 ELSE stream
    /\ tracked' \in IF Takes(sid, payload) /\ tracked = NoEvent
                    THEN {tracked, Event("data", sid, pos, payload)}
                    ELSE {tracked}
    /\ UNCHANGED <<dgram, pc>>

\* the address and the payloads of the peer whose history is written
HistAddrs == {"A1"}
HistPayloads == { <<LetterA>>, <<NL>>, <<NL, NL>> }

\* the same handlers, with the history written; one peer, one address
NextHist ==
    \/ \E addr \in HistAddrs : Connect(Id1, addr) /\ HistConnect(Id1)
    \/ \E addr \in HistAddrs : \E f \in DataFields(Id1, HistPayloads) :
          Data(Id1, f[1], f[2], addr) /\ HistData(Id1, f[1], f[2])
    \/ \E addr \in HistAddrs : Close(Id1, addr) /\ NoHist
    \/ \E addr \in HistAddrs : \E until \in AckFields(Id1) :
          Ack(Id1, until, addr) /\ NoHist
    \/ Tick /\ NoHist

SpecHist == Init /\ [][NextHist]_vars

\* ---------------------------------------------- properties of the history
\* every offset below the length of the peer's stream is supplied, and the
\* payloads agree on it
Complete(st) == st # <<>> /\ \A i \in 1..Len(st) : Cardinality(st[i]) = 1

\* the bytes of a complete stream
StreamBytes(st) == [i \in 1..Len(st) |-> CHOOSE b \in st[i] : TRUE]

\* the complete lines of a byte sequence, each reversed, with its newline
RECURSIVE PeerLines(_)
PeerLines(q) ==
    IF NL \notin Range(q) THEN <<>>
    ELSE LET i == CHOOSE i \in 1..Len(q) :
                    q[i] = NL /\ \A j \in 1..(i - 1) : q[j] # NL
         IN  Reverse(SubSeq(q, 1, i - 1)) \o <<NL>>
             \o PeerLines(SubSeq(q, i + 1, Len(q)))

\* C1: when a data datagram supplies the last missing offset of [0, N), the
\* payloads so far agreeing on every offset, the ack it is answered with
\* carries N and the outbound buffer is the peer's stream, line by line,
\* each line reversed; the arrival order plays no part.
C1_Reassembly ==
    [][\A s \in DOMAIN stream :
          (stream'[s] # stream[s] /\ Complete(stream'[s])) =>
              /\ Len(Acks(sent', s)) = 1
              /\ Acks(sent', s)[1].n = Len(stream'[s])
              /\ Decode(Join(sessions'[s].send_buffer))
                    = PeerLines(StreamBytes(stream'[s]))]_vars

\* what C8 says a redelivery leaves alone
C8_Unchanged(sid) ==
    LET old == sessions[sid]
        new == sessions'[sid]
    IN  /\ Len(new.data) = Len(old.data)
        /\ new.cursor = old.cursor
        /\ new.send_buffer = old.send_buffer
        /\ Datas(sent', sid) = <<>>
        /\ Len(Acks(sent', sid)) = 1
        /\ Acks(sent', sid)[1].n = Cumulative(old.data)

\* C8: a data datagram that was accepted before, delivered again when its
\* whole range is received and acknowledged, the peer's payloads agreeing on
\* every offset, leaves the length of received, read_cursor and outbound as
\* they were, extracts no line, and is answered with the same ack length.
C8_Redelivery ==
    [][(/\ tracked # NoEvent
        /\ last' = tracked
        /\ IsOpen(tracked.sid)
        /\ Complete(stream[tracked.sid])
        /\ tracked.n + Len(Decode(tracked.data))
              <= Cumulative(sessions[tracked.sid].data))
       => C8_Unchanged(tracked.sid)]_vars

\* ------------------------------------------------------ datagrams on the wire
\* int() takes the field: digits, with or without a minus sign
IsDigits(f) == f # <<>> /\ \A i \in 1..Len(f) : f[i] \in 0..9

IsInt(f) == IsDigits(f) \/ (IsNegative(f) /\ IsDigits(Tail(f)))

\* int() of a field of digits
RECURSIVE ToNat(_)
ToNat(f) == IF f = <<>> THEN 0 ELSE 10 * ToNat(SubSeq(f, 1, Len(f) - 1)) + f[Len(f)]

\* the callback ends at the return of line 80 or with an exception: nothing
\* is sent and nothing is stored
Dropped ==
    /\ last' = Event("error", <<>>, 0, <<>>)
    /\ sent' = <<>>
    /\ UNCHANGED <<sessions, keys>>

\* LRCP.datagram_received, from the bytes on
Receive(dg, addr) ==
    /\ dgram' = dg
    /\ UNCHANGED <<tracked, stream, pc>>
    /\ IF ~dg.lead \/ ~dg.trail THEN Dropped
       ELSE IF dg.args = <<>> THEN Dropped
       ELSE IF dg.kind = "connect"
            THEN IF Len(dg.args) # 1 \/ ~IsInt(dg.args[1]) THEN Dropped
                 ELSE Connect(dg.args[1], addr)
       ELSE IF dg.kind = "data"
            THEN IF Len(dg.args) # 3 THEN Dropped
                 ELSE IF ~IsOpen(dg.args[1]) THEN Data(dg.args[1], 0, <<>>, addr)
                 ELSE IF IsMalformed(SplitData(dg.args[3]))
                      THEN Data(dg.args[1], 0, dg.args[3], addr)
                 ELSE IF ~IsDigits(dg.args[2]) THEN Dropped
                 ELSE Data(dg.args[1], ToNat(dg.args[2]), dg.args[3], addr)
       ELSE IF dg.kind = "close"
            THEN IF Len(dg.args) # 1 THEN Dropped ELSE Close(dg.args[1], addr)
       ELSE IF dg.kind = "ack"
            THEN IF Len(dg.args) # 2 THEN Dropped
                 ELSE IF ~Known(dg.args[1]) THEN Ack(dg.args[1], 0, addr)
                 ELSE IF ~IsDigits(dg.args[2]) THEN Dropped
                 ELSE Ack(dg.args[1], ToNat(dg.args[2]), addr)
       ELSE Dropped

\* ids on the wire: -1, and a field that is no number
IdNeg == <<Minus, 1>>
IdAlpha == <<LetterA>>

WireIds == {Id1, IdEdge, IdOver, IdNeg}

\* the datagrams that arrive: well-formed ones
WellFormed ==
    {Datagram(TRUE, TRUE, "connect", <<sid>>) : sid \in WireIds}
    \cup {Datagram(TRUE, TRUE, "data", <<Id1, <<0>>, <<LetterA>> >>),
          Datagram(TRUE, TRUE, "data", <<Id1, <<1>>, <<NL>> >>),
          Datagram(TRUE, TRUE, "close", <<Id1>>),
          Datagram(TRUE, TRUE, "ack", <<Id1, <<0>> >>),
          Datagram(TRUE, TRUE, "ack", <<Id1, <<MaxData>> >>)}

\* and ones with a framing error: an outer slash missing, an unknown kind,
\* too few or too many fields, a field that is no number
IllFormed ==
    {Datagram(FALSE, TRUE, "connect", <<Id1>>),
     Datagram(TRUE, FALSE, "connect", <<Id1>>),
     Datagram(TRUE, TRUE, "hello", <<Id1>>),
     Datagram(TRUE, TRUE, "connect", <<>>),
     Datagram(TRUE, TRUE, "connect", <<Id1, Id1>>),
     Datagram(TRUE, TRUE, "connect", <<IdAlpha>>),
     Datagram(TRUE, TRUE, "data", <<Id1, <<0>> >>),
     Datagram(TRUE, TRUE, "data", <<IdAlpha, <<0>>, <<LetterA>> >>),
     Datagram(TRUE, TRUE, "data", <<Id1, <<LetterA>>, <<LetterA>> >>),
     Datagram(TRUE, TRUE, "close", <<Id1, Id1>>),
     Datagram(TRUE, TRUE, "close", <<IdAlpha>>),
     Datagram(TRUE, TRUE, "ack", <<Id1>>),
     Datagram(TRUE, TRUE, "ack", <<Id1, <<0>>, <<0>> >>),
     Datagram(TRUE, TRUE, "ack", <<Id1, <<LetterA>> >>),
     Datagram(TRUE, TRUE, "ack", <<IdAlpha, <<0>> >>)}

WireAddrs == {"A1"}

NextWire ==
    \/ \E dg \in WellFormed, addr \in WireAddrs : Receive(dg, addr)
    \/ \E dg \in IllFormed, addr \in WireAddrs : Receive(dg, addr)
    \/ Tick /\ NoHist

SpecWire == Init /\ [][NextWire]_vars

\* ------------------------------------------- properties of the wire handling
\* an id in [0, 2^31), as it is written on the wire
InRange(sid) == IsDigits(sid) /\ ValidId(sid)

\* C11: every id in the session table lies in [0, 2^31), and a connect whose
\* id lies outside (2^31 itself, a negative id) stores no session and is
\* answered with nothing.
C11_IdsInRange ==
    /\ \A sid \in DOMAIN sessions : InRange(sid)
    /\ (last.kind = "connect" /\ ~InRange(last.sid)) => sent = <<>>

\* the number of fields each kind of message takes
FieldCount(kind) ==
    IF kind \in {"connect", "close"} THEN 1
    ELSE IF kind = "ack" THEN 2
    ELSE IF kind = "data" THEN 3
    ELSE 0

\* a datagram with a framing error: an outer slash missing, an unknown kind,
\* a wrong number of fields, or a session, position or length that is no
\* number
FramingError(dg) ==
    \/ ~dg.lead \/ ~dg.trail
    \/ dg.kind \notin {"connect", "data", "ack", "close"}
    \/ Len(dg.args) # FieldCount(dg.kind)
    \/ ~IsInt(dg.args[1])
    \/ dg.kind \in {"data", "ack"} /\ ~IsInt(dg.args[2])

\* C12: a datagram with a framing error is dropped: nothing is sent, and
\* neither the session table nor a session changes; a data datagram whose
\* session field is no number included.
C12_FramingErrorDropped ==
    [][(last'.kind # "tick" /\ FramingError(dgram')) =>
          /\ sent' = <<>>
          /\ sessions' = sessions
          /\ keys' = keys]_vars

\* --------------------------------------------------------- further properties
\* C13: every datagram sent for a session of the table, ack, data and close
\* alike, goes to the address stored when the session was created, whatever
\* address the datagram that caused it came from.
C13_SentToSessionAddr ==
    \A i \in 1..Len(sent) :
        Known(sent[i].sid) => sent[i].to = sessions[sent[i].sid].addr

\* ------------------------------------------------------------ the codec alone
\* every payload of at most MaxPayload bytes over an ordinary byte, the
\* newline, the slash and the backslash
CodecBytes == {LetterA, NL, SLASH, BSLASH}

RECURSIVE BytesOfLen(_)
BytesOfLen(n) ==
    IF n = 0 THEN {<<>>}
    ELSE {<<b>> \o s : b \in CodecBytes, s \in BytesOfLen(n - 1)}

CodecPayloads == UNION {BytesOfLen(n) : n \in 0..MaxPayload}

\* one session, which takes every payload at every position while it is
\* empty
NextCodec ==
    \/ Connect(Id1, "A1") /\ NoHist
    \/ \E f \in DataFields(Id1, CodecPayloads) :
          /\ Known(Id1) => sessions[Id1].data = <<>>
          /\ Data(Id1, f[1], f[2], "A1") /\ NoHist
    \/ Tick /\ NoHist

SpecCodec == Init /\ [][NextCodec]_vars

\* an escape pair: a backslash and the slash or backslash it escapes
IsPair(u) == Len(u) = 2 /\ u[1] = BSLASH /\ u[2] \in {SLASH, BSLASH}

\* a payload built from escape pairs and bytes other than slash and backslash
RECURSIVE IsEscaped(_)
IsEscaped(d) ==
    IF d = <<>> THEN TRUE
    ELSE IF Head(d) = BSLASH
         THEN Len(d) >= 2 /\ d[2] \in {SLASH, BSLASH} /\ IsEscaped(SubSeq(d, 3, Len(d)))
    ELSE Head(d) # SLASH /\ IsEscaped(Tail(d))

\* its logical characters, as they are written on the wire
RECURSIVE Units(_)
Units(d) ==
    IF d = <<>> THEN <<>>
    ELSE IF Head(d) = BSLASH
         THEN <<SubSeq(d, 1, 2)>> \o Units(SubSeq(d, 3, Len(d)))
    ELSE <<SubSeq(d, 1, 1)>> \o Units(Tail(d))

\* C14: a payload built from ordinary bytes and the escape pairs of slash and
\* backslash, once accepted, is held by the slots from its position on in
\* such a way that joining them, as an outbound data message is built,
\* reproduces its bytes; each escape pair is one slot; and when the payload
\* is one line for an empty session, the data message sent carries the
\* line's logical characters in reverse, each pair written as it came.
C14_RoundTrip ==
    [][(AcceptedData' /\ IsEscaped(last'.data)) =>
          LET sid == last'.sid
              pos == last'.n
              d == last'.data
              new == sessions'[sid]
              body == SubSeq(d, 1, Len(d) - 1)
          IN  /\ \E m \in 0..Len(d) :
                    /\ pos + m <= Len(new.data)
                    /\ Join(SubSeq(new.data, pos + 1, pos + m)) = d
                    /\ SelectSeq(SubSeq(new.data, pos + 1, pos + m), IsPair)
                          = SelectSeq(Units(d), IsPair)
                    /\ \A j \in (pos + 1)..(pos + m) :
                          BSLASH \in Range(new.data[j]) => IsPair(new.data[j])
              /\ (/\ sessions[sid].data = <<>>
                  /\ pos = 0
                  /\ d # <<>> /\ d[Len(d)] = NL
                  /\ NL \notin Range(body))
                 => Datas(sent', sid)
                      = <<DataDg(sid, 0, Join(Reverse(Units(body))) \o <<NL>>, new.addr)>>]_vars

\* a line of an escaped slash alone has come in and gone out
C14_Witness ==
    /\ AcceptedData
    /\ last.n = 0
    /\ last.data = <<BSLASH, SLASH, NL>>
    /\ sessions[last.sid].data = << <<BSLASH, SLASH>>, <<NL>> >>
    /\ Datas(sent, last.sid) = <<DataDg(last.sid, 0, <<BSLASH, SLASH, NL>>, "A1")>>

\* ------------------------------------------------- properties of the sessions
\* C15: a datagram (connect, data, ack or close) that names a closed session
\* changes none of the session's fields, and what is sent in response is
\* close for that session and nothing else.
C15_ClosedIsQuiescent ==
    [][\A s \in DOMAIN sessions :
          (/\ sessions[s].is_closed
           /\ last'.kind \in {"connect", "data", "ack", "close"}
           /\ last'.sid = s)
          => /\ sessions'[s] = sessions[s]
             /\ \A i \in 1..Len(sent') :
                   sent'[i].kind = "close" /\ sent'[i].sid = s]_vars

\* the peer has acknowledged more than the session ever put in its outbound
\* buffer
OverAcked(s) == s.acked_until > Len(s.send_buffer)

\* C16: an ack for more than was sent changes no field of the session but
\* acked_until, is_closed in particular, and nothing but one close is sent
\* for it; a session that is open and acknowledged beyond its output still
\* has its data datagrams acknowledged and its output sent on a tick.
C16_OverAckOnlyReplies ==
    [][/\ (/\ last'.kind = "ack"
           /\ Known(last'.sid)
           /\ last'.n > Len(sessions[last'.sid].send_buffer))
          => /\ sessions' = [sessions EXCEPT ![last'.sid].acked_until = last'.n]
             /\ keys' = keys
             /\ Len(sent') <= 1
             /\ \A i \in 1..Len(sent') :
                   sent'[i].kind = "close" /\ sent'[i].sid = last'.sid
       /\ \A s \in DOMAIN sessions' :
             (~sessions'[s].is_closed /\ OverAcked(sessions'[s])) =>
                 /\ (AcceptedData' /\ last'.sid = s) => Len(Acks(sent', s)) = 1
                 /\ (last'.kind = "tick" /\ sessions'[s].send_buffer # <<>>)
                       => Datas(sent', s) # <<>>]_vars

\* the session was acknowledged beyond its one line, which got the close
\* reply, and the newline delivered again is acknowledged
C16_Witness ==
    /\ AcceptedData
    /\ last.n = 0 /\ last.data = <<NL>>
    /\ sessions[last.sid].data = << <<NL>> >>
    /\ sessions[last.sid].acked_until = MaxData
    /\ ~sessions[last.sid].is_closed
    /\ Len(Acks(sent, last.sid)) = 1

\* ------------------------------------------------------- long outbound buffers
\* the lengths around the multiples of CHUNK_SIZE
ChunkLens ==
    {k * CHUNK_SIZE + d : k \in 0..MaxChunks, d \in {0, 1}}
    \cup {k * CHUNK_SIZE - 1 : k \in 1..MaxChunks}

\* a session that has received one line of n slots and sent it back (the
\* line is n - 1 times the same byte, which reads the same reversed)
LineSession(n) ==
    LET line == [i \in 1..n |-> IF i = n THEN <<NL>> ELSE <<LetterA>>]
    IN  [NewSession("A1") EXCEPT !.data = line, !.cursor = n,
                                 !.send_cursor = n, !.send_buffer = line]

InitChunks ==
    /\ \E n \in ChunkLens : sessions = (Id1 :> LineSession(n))
    /\ keys = <<Id1>>
    /\ last = NoEvent
    /\ sent = <<>>
    /\ tracked = NoEvent
    /\ stream = <<>>
    /\ dgram = NoDatagram
    /\ pc = Idle

\* an empty line arrives at the end of the stream; the peer acknowledges
\* nothing or everything; the timer fires
NextChunks ==
    \/ /\ Len(sessions[Id1].data) \in ChunkLens
       /\ DataUpTo(MaxChunks * CHUNK_SIZE + 2, Id1, Len(sessions[Id1].data), <<NL>>, "A1")
       /\ NoHist
    \/ \E until \in {0, Len(sessions[Id1].send_buffer)} : Ack(Id1, until, "A1") /\ NoHist
    \/ Tick /\ NoHist

SpecChunks == InitChunks /\ [][NextChunks]_vars

\* q is buf cut into pieces of CHUNK_SIZE slots, each sent with the offset of
\* its first slot
IsChunking(q, buf, sid, addr) ==
    /\ Len(q) = (Len(buf) + CHUNK_SIZE - 1) \div CHUNK_SIZE
    /\ \A i \in 1..Len(q) :
          q[i] = DataDg(sid, (i - 1) * CHUNK_SIZE,
                        Join(SubSeq(buf, (i - 1) * CHUNK_SIZE + 1,
                                    Min(i * CHUNK_SIZE, Len(buf)))),
                        addr)
    /\ Join([i \in 1..Len(q) |-> q[i].data]) = Join(buf)

\* C17: on a tick, and in a step that extracts one line, the data datagrams
\* sent for an open session are the consecutive CHUNK_SIZE pieces of its whole
\* outbound buffer, from offset 0 on, whatever the peer has acknowledged;
\* none when the buffer is empty.
C17_WholeBufferInChunks ==
    [][\A s \in DOMAIN sessions :
          LET old == sessions[s]
              new == sessions'[s]
          IN  /\ (last'.kind = "tick" /\ ~old.is_closed)
                    => IsChunking(Datas(sent', s), old.send_buffer, s, old.addr)
              /\ (/\ AcceptedData' /\ last'.sid = s
                  /\ Len(new.send_buffer) > Len(old.send_buffer)
                  /\ <<NL>> \notin Range(SubSeq(new.send_buffer,
                                               Len(old.send_buffer) + 1,
                                               Len(new.send_buffer) - 1)))
                    => IsChunking(Datas(sent', s), new.send_buffer, s, new.addr)]_vars

\* a tick for a buffer of two full chunks and one slot more, all of it
\* acknowledged: three datagrams
C17_Witness ==
    /\ last.kind = "tick"
    /\ ~sessions[Id1].is_closed
    /\ Len(sessions[Id1].send_buffer) = 2 * CHUNK_SIZE + 1
    /\ sessions[Id1].acked_until = 2 * CHUNK_SIZE + 1
    /\ Len(Datas(sent, Id1)) = 3
    /\ Datas(sent, Id1)[3].n = 2 * CHUNK_SIZE
    /\ Datas(sent, Id1)[3].data = <<NL>>

\* ------------------------------------------------------------ the timer, fairly
\* the payloads of the one peer
LivePayloads == { <<LetterA>>, <<NL>> }

NextLive ==
    \/ Connect(Id1, "A1") /\ NoHist
    \/ \E f \in DataFields(Id1, LivePayloads) : Data(Id1, f[1], f[2], "A1") /\ NoHist
    \/ Close(Id1, "A1") /\ NoHist
    \/ \E until \in AckFields(Id1) : Ack(Id1, until, "A1") /\ NoHist
    \/ Tick /\ NoHist

\* retransmit_task calls maybe_retransmit every three seconds, for ever
SpecLive == Init /\ [][NextLive]_vars /\ WF_vars(Tick /\ NoHist)

\* the session is open and has output
HasOutput(sid) == IsOpen(sid) /\ sessions[sid].send_buffer # <<>>

\* C18: every tick sends the output of each open session that has any,
\* whatever the peer has acknowledged, so a session that stays open with
\* output has it sent again and again; only a closed session is passed over.
C18_RetransmitForEver ==
    /\ [][last'.kind = "tick" =>
             \A s \in DOMAIN sessions :
                 /\ HasOutput(s) => Datas(sent', s) # <<>>
                 /\ Datas(sent', s) # <<>> => HasOutput(s)]_vars
    /\ <>[]HasOutput(Id1) => []<>(last.kind = "tick" /\ Datas(sent, Id1) # <<>>)

\* a tick sends the output of a session whose output is all acknowledged
C18_Witness ==
    /\ last.kind = "tick"
    /\ HasOutput(Id1)
    /\ sessions[Id1].acked_until = Len(sessions[Id1].send_buffer)
    /\ Datas(sent, Id1) # <<>>

\* C19: in every step, whatever datagram or tick it is, each session keeps
\* its place in the table, its received buffer does not get shorter, a slot
\* that is filled stays filled, and read_cursor does not decrease.
C19_NoRegression ==
    [][\A s \in DOMAIN sessions :
          /\ s \in DOMAIN sessions'
          /\ Len(sessions'[s].data) >= Len(sessions[s].data)
          /\ \A i \in 1..Len(sessions[s].data) :
                sessions[s].data[i] # <<>> => sessions'[s].data[i] # <<>>
          /\ sessions'[s].cursor >= sessions[s].cursor]_vars

\* a datagram for offset 0 arrives when the line it belongs to has gone out:
\* the slot is written again, the cursor stays behind the line
C19_Witness ==
    /\ AcceptedData
    /\ last.n = 0 /\ last.data = <<LetterA>>
    /\ sessions[last.sid].data = << <<LetterA>>, <<NL>> >>
    /\ sessions[last.sid].cursor = 2
    /\ Datas(sent, last.sid) = <<>>

\* C20: an accepted payload of k logical characters (ordinary bytes, the
\* newline among them, and escape pairs) written at a position fills the k
\* slots from that position on, one character each, and no more when the
\* session was empty; consecutive newlines are no exception.
C20_OneSlotPerCharacter ==
    [][(AcceptedData' /\ IsEscaped(last'.data)) =>
          LET pos == last'.n
              chars == Units(last'.data)
              new == sessions'[last'.sid]
          IN  /\ Len(new.data) >= pos + Len(chars)
              /\ SubSeq(new.data, pos + 1, pos + Len(chars)) = chars
              /\ sessions[last'.sid].data = <<>>
                    => Len(new.data) = pos + Len(chars)]_vars

\* ------------------------------------------- handle_data, one line at a time
\* the first slot from i on that holds a newline, 0 when there is none
NextNewline(s, i) ==
    IF \A j \in i..Len(s.data) : s.data[j] # <<NL>> THEN 0
    ELSE CHOOSE j \in i..Len(s.data) :
            s.data[j] = <<NL>> /\ \A k \in i..(j - 1) : s.data[k] # <<NL>>

\* lines 39-40 for the line ending at slot i, send_buffer holding it already
FinishLine(s, i) ==
    [s EXCEPT !.cursor = i, !.send_cursor = @ + (i - s.cursor)]

\* The loop of handle_data runs on from slot i with out sent so far: up to
\* line 37 for the next line, or to its end, where the callback sends the ack
\* and returns.
RunOn(sid, s, i, out, addr) ==
    LET j == NextNewline(s, i)
    IN  IF j = 0
        THEN /\ sessions' = [sessions EXCEPT ![sid] = s]
             /\ sent' = out \o <<AckDg(sid, AckLength(s), addr)>>
             /\ pc' = Idle
        ELSE /\ sessions' = [sessions EXCEPT ![sid] = BeforeSend(s, j)]
             /\ sent' = out
             /\ pc' = AtSend(sid, j, addr)

\* the data callback starts: lines 91-100 and handle_data up to line 37
DataBegin(sid, pos, payload, addr) ==
    /\ pc = Idle
    /\ last' = Event("data", sid, pos, payload)
    /\ UNCHANGED keys
    /\ IF ~IsOpen(sid)
       THEN /\ sent' = <<CloseDg(sid, addr)>>
            /\ UNCHANGED <<sessions, pc>>
       ELSE IF IsMalformed(SplitData(payload))
            THEN /\ sent' = <<>>
                 /\ UNCHANGED <<sessions, pc>>
       ELSE LET s == AddData(sessions[sid], pos, SplitData(payload))
            IN  /\ Len(s.data) <= MaxData
                /\ IF HasEmptySlot(s)
                   THEN /\ sessions' = [sessions EXCEPT ![sid] = s]
                        /\ sent' = <<AckDg(sid, AckLength(s), addr)>>
                        /\ pc' = Idle
                   ELSE RunOn(sid, s, s.cursor + 1, <<>>, addr)

\* the data callback goes on: lines 37-40, and the loop from the next slot
DataSend ==
    /\ pc.at = "send"
    /\ UNCHANGED <<last, keys>>
    /\ LET s == sessions[pc.sid]
       IN  RunOn(pc.sid, FinishLine(s, pc.i), pc.i + 1,
                 sent \o SendData(pc.sid, s), pc.addr)

\* (variant) the timer has a thread of its own
TimerCanRunAnytime == TRUE

\* retransmit_task is a task of the loop that runs the callbacks: it goes on
\* after its sleep when no callback is running
TimerCanRun == pc = Idle

StepPayloads == { <<LetterA>>, <<NL>>, <<LetterA, NL>> }

NextSteps ==
    \/ pc = Idle /\ Connect(Id1, "A1") /\ NoHist
    \/ \E f \in DataFields(Id1, StepPayloads) :
          DataBegin(Id1, f[1], f[2], "A1") /\ UNCHANGED <<tracked, stream, dgram>>
    \/ DataSend /\ UNCHANGED <<tracked, stream, dgram>>
    \/ pc = Idle /\ Close(Id1, "A1") /\ NoHist
    \/ \E until \in AckFields(Id1) : pc = Idle /\ Ack(Id1, until, "A1") /\ NoHist
    \/ TimerCanRun /\ Tick /\ NoHist

SpecSteps == Init /\ [][NextSteps]_vars

\* what holds of a session between callbacks
Consistent(s) ==
    /\ Len(s.send_buffer) = s.cursor
    /\ s.cursor = s.send_cursor
    /\ s.cursor <= Len(s.data)
    /\ \A i \in 1..s.cursor : s.data[i] # <<>>

\* C21: a tick starts only when no callback is running, and whenever a tick
\* or a callback starts, every session has as many slots in its outbound
\* buffer as read_cursor and send_cursor say, no more than it received, and
\* no empty slot below read_cursor.
C21_AtomicHandlers ==
    [][/\ last'.kind = "tick" => pc = Idle
       /\ (pc = Idle \/ last'.kind = "tick")
             => \A s \in DOMAIN sessions : Consistent(sessions[s])]_vars

\* a tick finds the session with its two lines extracted, one callback having
\* extracted both
C21_Witness ==
    /\ last.kind = "tick"
    /\ pc = Idle
    /\ Known(Id1)
    /\ sessions[Id1].data = << <<NL>>, <<NL>> >>
    /\ sessions[Id1].send_buffer = << <<NL>>, <<NL>> >>
    /\ Consistent(sessions[Id1])
    /\ Len(Datas(sent, Id1)) = 1

\* ------------------------------------------------ nothing left to extract
\* slot i of the session holds a newline
HoldsNewline(s, i) == NL \in Range(s.data[i])

\* C22: once a data handler has returned, a session without an empty slot
\* holds no newline at or after read_cursor, every complete line having been
\* extracted; and the close handler changes neither read_cursor nor the
\* outbound buffer, and sends no data.
C22_NothingLeftToExtract ==
    [][/\ last'.kind = "data" =>
             \A sid \in DOMAIN sessions' :
                LET s == sessions'[sid]
                IN  ~HasEmptySlot(s) =>
                       \A i \in (s.cursor + 1)..Len(s.data) : ~HoldsNewline(s, i)
       /\ (last'.kind = "close" /\ Known(last'.sid)) =>
             /\ sessions'[last'.sid].cursor = sessions[last'.sid].cursor
             /\ sessions'[last'.sid].send_buffer = sessions[last'.sid].send_buffer
             /\ Datas(sent', last'.sid) = <<>>]_vars

====
